---- MODULE Spec2Model ----
(***************************************************************************)
(* EndoFind monthly surgeon updater (scripts/update_surgeons.py).          *)
(*                                                                         *)
(* Display names, identifiers, keys, family names and states are modelled  *)
(* as sequences of one-character strings, so that strip / lower / replace  *)
(* / re.sub / split act on characters as they do in Python.  All other     *)
(* text fields are opaque strings.  Python's None is the value None.       *)
(***************************************************************************)
EXTENDS Integers, Sequences, FiniteSets, TLC

VARIABLES
    pc,                 \* position of main(): "load", "scrape", "merge", "sort", "save", "log", "done"
    existing,           \* main's / merge_surgeons' working list of canonical records
    dataFile,           \* content of data/surgeons.json (Absent when the file does not exist)
    logFile,            \* content of data/update_log.json (Absent when the file does not exist)
    results_by_source,  \* main's per-source outcome map
    total_added,        \* main's running count
    si,                 \* index in `scrapers` of the next source to run
    clock,              \* datetime.utcnow(): number of the current run
    loaded,             \* history: the list loaded at the start of the current run
    fetched,            \* history: how each scraper call of the current run ended
    page,               \* scrape_icarebetter's page counter
    surgeons,           \* scrape_icarebetter's list of candidates so far
    since,              \* seconds known to have passed since the last request was sent
    gap,                \* history: what `since` was when the last request was sent
    wrote,              \* history: the files the current run has opened for writing
    new_entries,        \* the candidate list of the last merge_surgeons call
    added,              \* the count returned by the last merge_surgeons call
    name,               \* SpecId: the display name given to make_id
    ident               \* SpecId: make_id's result

vars == <<pc, existing, dataFile, logFile, results_by_source, total_added, si,
          clock, loaded, fetched, page, surgeons, since, gap, wrote, new_entries,
          added, name, ident>>

-----------------------------------------------------------------------------
(* Characters and Python's string methods                                  *)

UpperCase == <<"A","B","C","D","E","F","G","H","I","J","K","L","M",
               "N","O","P","Q","R","S","T","U","V","W","X","Y","Z">>
LowerCase == <<"a","b","c","d","e","f","g","h","i","j","k","l","m",
               "n","o","p","q","r","s","t","u","v","w","x","y","z">>
Digits == <<"0","1","2","3","4","5","6","7","8","9">>

\* The characters of the model in code-point order (what < on str compares).
CodePoints == <<" ", ",", "-", ".">> \o Digits \o UpperCase \o LowerCase

Range(f) == {f[i] : i \in DOMAIN f}

IsSpace(c) == c = " "

\* str.lower() on one character
LowerChar(c) ==
    IF c \in Range(UpperCase)
    THEN LowerCase[CHOOSE i \in DOMAIN UpperCase : UpperCase[i] = c]
    ELSE c

\* str.lower()
Lower(s) == [i \in DOMAIN s |-> LowerChar(s[i])]

\* The first index >= i of s whose character is not in `class`, Len(s) + 1
\* when there is none; the last index <= i, 0 when there is none.
RECURSIVE FirstOutside(_, _, _)
FirstOutside(s, class, i) ==
    IF i > Len(s) \/ s[i] \notin class THEN i ELSE FirstOutside(s, class, i + 1)

RECURSIVE LastOutside(_, _, _)
LastOutside(s, class, i) ==
    IF i < 1 \/ s[i] \notin class THEN i ELSE LastOutside(s, class, i - 1)

\* The characters of `class` removed from both ends of s.
StripClass(s, class) ==
    SubSeq(s, FirstOutside(s, class, 1), LastOutside(s, class, Len(s)))

\* str.strip(): leading and trailing whitespace removed
Strip(s) == StripClass(s, {" "})

\* str.strip(ch): leading and trailing occurrences of one character removed
StripChar(s, ch) == StripClass(s, {ch})

\* s[i:].startswith(pat)
MatchAt(s, pat, i) ==
    /\ i + Len(pat) - 1 <= Len(s)
    /\ \A k \in DOMAIN pat : s[i + k - 1] = pat[k]

\* str.startswith(pat)
StartsWith(s, pat) == MatchAt(s, pat, 1)

\* str.replace(pat, rep): every non-overlapping occurrence, left to right
RECURSIVE ReplaceFrom(_, _, _, _)
ReplaceFrom(s, pat, rep, i) ==
    IF i > Len(s) THEN <<>>
    ELSE IF MatchAt(s, pat, i) THEN rep \o ReplaceFrom(s, pat, rep, i + Len(pat))
    ELSE <<s[i]>> \o ReplaceFrom(s, pat, rep, i + 1)

Replace(s, pat, rep) == ReplaceFrom(s, pat, rep, 1)

\* re.sub(<class>+, rep, s): every maximal run of characters of `class`
\* becomes one `rep`
RECURSIVE SubRunsFrom(_, _, _, _)
SubRunsFrom(s, class, rep, i) ==
    IF i > Len(s) THEN <<>>
    ELSE IF s[i] \in class
         THEN IF i > 1 /\ s[i - 1] \in class
              THEN SubRunsFrom(s, class, rep, i + 1)
              ELSE rep \o SubRunsFrom(s, class, rep, i + 1)
    ELSE <<s[i]>> \o SubRunsFrom(s, class, rep, i + 1)

SubRuns(s, class, rep) == SubRunsFrom(s, class, rep, 1)

\* str.split(): the maximal runs of non-whitespace characters, in order
RECURSIVE SplitFrom(_, _, _)
SplitFrom(s, i, word) ==
    IF i > Len(s) THEN (IF word = <<>> THEN <<>> ELSE <<word>>)
    ELSE IF IsSpace(s[i])
         THEN (IF word = <<>> THEN <<>> ELSE <<word>>) \o SplitFrom(s, i + 1, <<>>)
    ELSE SplitFrom(s, i + 1, Append(word, s[i]))

Split(s) == SplitFrom(s, 1, <<>>)

\* a < b on str: lexicographic in code-point order
CodePoint(c) == CHOOSE i \in DOMAIN CodePoints : CodePoints[i] = c

RECURSIVE StrLessFrom(_, _, _)
StrLessFrom(a, b, i) ==
    IF i > Len(b) THEN FALSE
    ELSE IF i > Len(a) THEN TRUE
    ELSE IF a[i] = b[i] THEN StrLessFrom(a, b, i + 1)
    ELSE CodePoint(a[i]) < CodePoint(b[i])

StrLess(a, b) == StrLessFrom(a, b, 1)

-----------------------------------------------------------------------------
(* HELPERS                                                                 *)

WhiteSpace == {" "}
AlphaNum == Range(LowerCase) \cup Range(Digits)
NotAlphaNum == Range(CodePoints) \ AlphaNum

\* The display names of the model.
DrJaneSmith == <<"D","r","."," ","J","a","n","e"," ","S","m","i","t","h">>
DrJaneSmithSpaced ==
    <<"D","r","."," "," ","J","a","n","e"," "," "," ","S","m","i","t","h",".">>
drjanesmith == <<"d","r"," ","j","a","n","e"," ","s","m","i","t","h">>
DrJohnDoe == <<"D","r","."," ","J","o","h","n"," ","D","o","e">>
DrAmyLee == <<"D","r","."," ","A","m","y"," ","L","e","e">>

ModelNames == <<DrJaneSmith, DrJaneSmithSpaced, drjanesmith, DrJohnDoe, DrAmyLee>>

\* The body of normalize_name, character by character.
NormalizeChars(n) ==
    SubRuns(
        Replace(
            Replace(
                Replace(
                    Replace(Lower(Strip(n)), <<"d","r","."," ">>, <<>>),
                    <<"d","r"," ">>, <<>>),
                <<".">>, <<>>),
            <<",">>, <<>>),
        WhiteSpace, <<" ">>)

\* NormalizeChars of the display names of the model, computed once: a
\* table TLC evaluates before the search, so that a call with one of these
\* names is a lookup.
NormalizedModelNames == [i \in DOMAIN ModelNames |-> NormalizeChars(ModelNames[i])]

NameKeys == NormalizedModelNames @@ <<>>

normalize_name(n) ==
    IF \E i \in DOMAIN ModelNames : ModelNames[i] = n
    THEN NameKeys[CHOOSE i \in DOMAIN ModelNames : ModelNames[i] = n]
    ELSE NormalizeChars(n)

\* Mutant of make_id: the key itself is returned.
make_id_NotSlugged(n) == normalize_name(n)

make_id(n) == StripChar(SubRuns(normalize_name(n), NotAlphaNum, <<"-">>), "-")

\* Variables a specification does not use keep this value.
Idle == "idle"

-----------------------------------------------------------------------------
(* MERGE LOGIC                                                             *)

None == "<None>"

\* dict.get(key, default)
Get(entry, key, default) == IF key \in DOMAIN entry THEN entry[key] ELSE default

Title == <<"D","r",".">>
TitleSp == <<"D","r","."," ">>

\* x or y, on strings and None
OrElse(x, y) == IF x = None \/ x = "" THEN y ELSE x

\* The record merge_surgeons builds for a new addition.
BuildRecord(entry, nm) ==
    LET parts == Split(Replace(nm, TitleSp, <<>>))
        src   == Get(entry, "source", "monthly update")
    IN  [ id        |-> make_id(nm),
          name      |-> nm,
          fn        |-> IF StartsWith(nm, TitleSp) THEN parts[1] ELSE <<>>,
          ln        |-> IF StartsWith(nm, TitleSp) THEN parts[Len(parts)] ELSE <<>>,
          creds     |-> <<"MD">>,
          org       |-> Get(entry, "org", "Verify directly"),
          city      |-> Get(entry, "city", ""),
          state     |-> Get(entry, "state", <<>>),
          lat       |-> None,
          lon       |-> None,
          phone     |-> Get(entry, "phone", None),
          web       |-> OrElse(Get(entry, "web", None), Get(entry, "profile_url", "")),
          specs     |-> Get(entry, "specs", <<"Excision Surgery">>),
          ins       |-> "Verify directly",
          accepting |-> Get(entry, "accepting", TRUE),
          notes     |-> Get(entry, "notes",
                            <<"Added via ", src, ". Verify details directly.">>),
          stars     |-> 4,
          source    |-> Get(entry, "source", "Monthly Update"),
          verified  |-> FALSE ]

\* Mutant of MergeFrom: the key of an appended record is not added to
\* existing_names.
RECURSIVE MergeFrom_KeyNotRemembered(_, _, _, _, _)
MergeFrom_KeyNotRemembered(list, names, cnt, entries, i) ==
    IF i > Len(entries) THEN [list |-> list, added |-> cnt]
    ELSE LET entry == entries[i]
             nm    == Strip(Get(entry, "name", <<>>))
             norm  == normalize_name(nm)
         IN  IF nm = <<>> \/ ~StartsWith(nm, Title) \/ norm \in names
             THEN MergeFrom_KeyNotRemembered(list, names, cnt, entries, i + 1)
             ELSE MergeFrom_KeyNotRemembered(Append(list, BuildRecord(entry, nm)),
                                             names, cnt + 1, entries, i + 1)

\* Mutant of MergeFrom: a candidate whose key is already present refreshes
\* the record that holds the key, when it differs.
RECURSIVE MergeFrom_Overwriting(_, _, _, _, _)
MergeFrom_Overwriting(list, names, cnt, entries, i) ==
    IF i > Len(entries) THEN [list |-> list, added |-> cnt]
    ELSE LET entry == entries[i]
             nm    == Strip(Get(entry, "name", <<>>))
             norm  == normalize_name(nm)
         IN  IF nm = <<>> \/ ~StartsWith(nm, Title)
             THEN MergeFrom_Overwriting(list, names, cnt, entries, i + 1)
             ELSE IF norm \in names
             THEN LET k   == CHOOSE k \in DOMAIN list : normalize_name(list[k].name) = norm
                      rec == BuildRecord(entry, nm)
                  IN  IF list[k] = rec
                      THEN MergeFrom_Overwriting(list, names, cnt, entries, i + 1)
                      ELSE MergeFrom_Overwriting(
                               SubSeq(list, 1, k - 1) \o <<rec>>
                                   \o SubSeq(list, k + 1, Len(list)),
                               names, cnt, entries, i + 1)
             ELSE MergeFrom_Overwriting(Append(list, BuildRecord(entry, nm)),
                                        names \cup {norm}, cnt + 1, entries, i + 1)

\* Mutant of MergeFrom: every accepted candidate is counted, appended or not.
RECURSIVE MergeFrom_CountsSkipped(_, _, _, _, _)
MergeFrom_CountsSkipped(list, names, cnt, entries, i) ==
    IF i > Len(entries) THEN [list |-> list, added |-> cnt]
    ELSE LET entry == entries[i]
             nm    == Strip(Get(entry, "name", <<>>))
             norm  == normalize_name(nm)
         IN  IF nm = <<>> \/ ~StartsWith(nm, Title)
             THEN MergeFrom_CountsSkipped(list, names, cnt, entries, i + 1)
             ELSE IF norm \in names
             THEN MergeFrom_CountsSkipped(list, names, cnt + 1, entries, i + 1)
             ELSE MergeFrom_CountsSkipped(Append(list, BuildRecord(entry, nm)),
                                          names \cup {norm}, cnt + 1, entries, i + 1)

\* The loop of merge_surgeons from entry i on: `list` is `existing`,
\* `names` is existing_names, `cnt` is added.
RECURSIVE MergeFrom(_, _, _, _, _)
MergeFrom(list, names, cnt, entries, i) ==
    IF i > Len(entries) THEN [list |-> list, added |-> cnt]
    ELSE LET entry == entries[i]
             nm    == Strip(Get(entry, "name", <<>>))
             norm  == normalize_name(nm)
         IN  IF nm = <<>> \/ ~StartsWith(nm, Title)
             THEN MergeFrom(list, names, cnt, entries, i + 1)
             ELSE IF norm \in names
             THEN MergeFrom(list, names, cnt, entries, i + 1)
             ELSE MergeFrom(Append(list, BuildRecord(entry, nm)),
                            names \cup {norm}, cnt + 1, entries, i + 1)

\* Mutant of merge_surgeons: existing_names starts empty.
merge_surgeons_ForgetsExisting(list, entries) == MergeFrom(list, {}, 0, entries, 1)

merge_surgeons(list, entries) ==
    MergeFrom(list, {normalize_name(d.name) : d \in Range(list)}, 0, entries, 1)

-----------------------------------------------------------------------------
(* Display names, candidates and starting canonical sets of the model      *)

TX == <<"T","X">>
NY == <<"N","Y">>

DefaultSpecs == <<"Excision Surgery">>

\* Candidates in the shapes the three scrapers build.
ICBCand(nm, loc, url) ==
    [name |-> nm, source_location |-> loc, source |-> "iCareBetter",
     profile_url |-> url, specs |-> DefaultSpecs, accepting |-> TRUE]

EoECand(nm, city, st, phone, web) ==
    [name |-> nm, city |-> city, state |-> st, phone |-> phone, web |-> web,
     source |-> "EndofEndo", specs |-> DefaultSpecs, accepting |-> TRUE]

PRCand(nm, city, st) ==
    [name |-> nm, city |-> city, state |-> st, phone |-> None,
     web |-> "https://pelvicrehabilitation.com/request-an-appointment/",
     source |-> "Pelvic Rehabilitation Medicine", specs |-> DefaultSpecs,
     accepting |-> TRUE,
     notes |-> <<"Fellowship-trained excision surgeon listed by Pelvic Rehabilitation Medicine.">>]

JaneEoE == EoECand(DrJaneSmith, "Austin", TX, "512-555-0101", None)
JanePR == PRCand(DrJaneSmith, "Dallas", TX)
JaneSpacedICB == ICBCand(DrJaneSmithSpaced, "Austin, TX", "https://icarebetter.com/jane")
JohnEoE == EoECand(DrJohnDoe, "", <<>>, None, None)
AmyPR == PRCand(DrAmyLee, "Albany", NY)
\* Entries no scraper builds but merge_surgeons accepts as input.
LowerJane == [name |-> drjanesmith, source |-> "EndofEndo"]
NoName == [source |-> "EndofEndo"]

CandPool == {JaneEoE, JaneSpacedICB, AmyPR}

\* A manually curated canonical record.
Manual(nm, first, last, st) ==
    [ id |-> make_id(nm), name |-> nm, fn |-> first, ln |-> last,
      creds |-> <<"MD", "FACOG">>, org |-> "Curated Clinic", city |-> "Houston",
      state |-> st, lat |-> "29.76", lon |-> "-95.37", phone |-> "713-555-0100",
      web |-> "https://example.org", specs |-> DefaultSpecs, ins |-> "Accepts most plans",
      accepting |-> TRUE, notes |-> <<"Curated by hand.">>, stars |-> 5,
      source |-> "manual", verified |-> TRUE ]

ManualJane == Manual(DrJaneSmith, <<"J","a","n","e">>, <<"S","m","i","t","h">>, TX)
ManualJaneLower == Manual(drjanesmith, <<"j","a","n","e">>, <<"s","m","i","t","h">>, TX)
ManualAmy == Manual(DrAmyLee, <<"A","m","y">>, <<"L","e","e">>, NY)

\* Longest candidate list drawn for one merge_surgeons call.
MaxCands == 2

SeqsUpTo(S, n) == UNION {[1..k -> S] : k \in 0..n}

\* The candidate lists of the two end-to-end scenarios, lists with entries
\* merge_surgeons rejects, and every short list over CandPool.
ScenarioLists == {<<JaneEoE, JaneEoE, JohnEoE>>, <<JaneEoE, AmyPR>>}
RejectLists == {<<LowerJane, JaneEoE>>, <<JanePR, LowerJane>>, <<NoName, LowerJane>>}
\* One surgeon offered with the fields of two sources, in both orders.
TwoSourceLists == {<<JanePR, JaneEoE>>, <<JaneEoE, JanePR>>}
CandLists ==
    SeqsUpTo(CandPool, MaxCands) \cup ScenarioLists \cup RejectLists \cup TwoSourceLists

\* Starting canonical sets: none, curated ones, and one that already holds
\* two records with one key.
StartSets == {<<>>, <<ManualJane>>, <<ManualJaneLower>>, <<ManualAmy, ManualJane>>,
              <<ManualJane, ManualJaneLower>>}

-----------------------------------------------------------------------------
(* FETCH AND SCRAPERS                                                      *)
(*                                                                         *)
(* The remote sites are the environment.  What get() returns for a page is *)
(* either FetchFail (get() caught an exception and returned None) or the   *)
(* content of the page as far as the scraper reads it: the cards or        *)
(* entries found, in page order, and whether a `next page' link exists.    *)

FetchFail == [ok |-> FALSE]

\* Seconds get() sleeps after a request that succeeded.
SLEEP == 2

\* get(): the seconds that have passed since the request when get() returns
\* `soup`.  time.sleep(SLEEP) is in the try block after raise_for_status, so
\* it runs only when the request succeeded.
SinceAfterGet(soup) == IF soup = FetchFail THEN 0 ELSE SLEEP

\* Safety limit of the pagination loop.
PageLimit == 40

\* What one iCareBetter card holds: the text of its name tag, its location
\* text and its link.
Card(nm, loc, url) == [name |-> nm, location |-> loc, href |-> url]

\* The candidates the card loop appends for the cards of one page.
RECURSIVE CardsToCandidates(_, _)
CardsToCandidates(cards, i) ==
    IF i > Len(cards) THEN <<>>
    ELSE IF ~StartsWith(cards[i].name, Title) THEN CardsToCandidates(cards, i + 1)
    ELSE <<ICBCand(cards[i].name, cards[i].location, cards[i].href)>>
             \o CardsToCandidates(cards, i + 1)

\* Mutant of ICBPass: the safety limit is tested before the page number is
\* incremented.
ICBPass_LimitTestedEarly(found, p, soup) ==
    IF soup = FetchFail THEN [surgeons |-> found, again |-> FALSE]
    ELSE IF soup.cards = <<>> THEN [surgeons |-> found, again |-> FALSE]
    ELSE [surgeons |-> found \o CardsToCandidates(soup.cards, 1),
          again    |-> soup.next /\ ~(p > PageLimit)]

\* One pass of the while loop of scrape_icarebetter, on page number p with
\* `found` collected so far, when get() gives `soup`: the list afterwards
\* and whether the loop goes on to page p + 1.
ICBPass(found, p, soup) ==
    IF soup = FetchFail THEN [surgeons |-> found, again |-> FALSE]
    ELSE IF soup.cards = <<>> THEN [surgeons |-> found, again |-> FALSE]
    ELSE [surgeons |-> found \o CardsToCandidates(soup.cards, 1),
          again    |-> soup.next /\ ~(p + 1 > PageLimit)]

\* The single-page scrapers: the page's entries whose text holds a name of
\* the shape "Dr. Given Family", as candidates, or nothing when get() failed.
scrape_endofendo(soup) == IF soup = FetchFail THEN <<>> ELSE soup.entries

scrape_pelvic_rehab(soup) == IF soup = FetchFail THEN <<>> ELSE soup.entries

scrapers == <<"iCareBetter", "EndofEndo", "Pelvic Rehab">>

\* Pages of the model.
JaneSpacedCard == Card(DrJaneSmithSpaced, "Austin, TX", "https://icarebetter.com/jane")
JohnCard == Card(DrJohnDoe, "", "")
TeamCard == Card(<<"O","u","r"," ","T","e","a","m">>, "", "/team")

\* Surgeons' cards are on the first CardPages pages of iCareBetter.
CardPages == 2

\* What a page up to CardPages can be: unreachable, without cards, or with
\* cards and with or without a `next page' link.
ICBPages ==
    {FetchFail} \cup
    {[ok |-> TRUE, cards |-> c, next |-> n] :
        c \in {<<>>, <<JaneSpacedCard>>, <<TeamCard, JohnCard>>}, n \in BOOLEAN}

\* What a later page can be: its only card, if any, is not a surgeon's, and
\* it may link on for ever (the false `next page' signal the safety limit is
\* there for).
ICBLaterPages ==
    {FetchFail} \cup
    {[ok |-> TRUE, cards |-> c, next |-> n] : c \in {<<>>, <<TeamCard>>}, n \in BOOLEAN}

\* What the site serves, page number by page number.
ICBAnyPage == [p \in 1..PageLimit |-> IF p <= CardPages THEN ICBPages ELSE ICBLaterPages]

EoEPages ==
    {FetchFail} \cup {[ok |-> TRUE, entries |-> e] : e \in SeqsUpTo({JaneEoE, JohnEoE}, MaxCands)}
PRPages ==
    {FetchFail} \cup {[ok |-> TRUE, entries |-> e] : e \in SeqsUpTo({JanePR, AmyPR}, MaxCands)}

-----------------------------------------------------------------------------
(* MAIN                                                                    *)

\* A file of the data directory: missing, or holding a JSON value.
Absent == [exists |-> FALSE]
File(value) == [exists |-> TRUE, json |-> value]

\* A file whose writer stopped part-way: open(path, 'w') has emptied it and
\* json.dump has written the text of the first k records of `list`, without
\* the closing bracket.
Torn(list, k) == [exists |-> TRUE, partial |-> SubSeq(list, 1, k)]

\* json.load returns a value: the file is missing (and is not opened) or
\* holds a complete JSON text.
Readable(file) == ~file.exists \/ "json" \in DOMAIN file

\* history[-24:]
KeepMonths == 24

\* Mutant of LastN: history[:24], the oldest entries are the ones kept.
LastN_KeepsOldest(s, n) == IF Len(s) <= n THEN s ELSE SubSeq(s, 1, n)

LastN(s, n) == IF Len(s) <= n THEN s ELSE SubSeq(s, Len(s) - n + 1, Len(s))

\* Mutant of KeyLess: the key is the state alone.
KeyLess_StateOnly(a, b) == StrLess(a.state, b.state)

\* The sort key of line 318, compared as Python compares tuples.
KeyLess(a, b) ==
    \/ StrLess(a.state, b.state)
    \/ a.state = b.state /\ StrLess(Lower(a.ln), Lower(b.ln))

\* list.sort(key=...) is stable: a record goes before the first record of
\* the sorted part whose key is larger.
RECURSIVE InsertSorted(_, _, _)
InsertSorted(sorted, r, i) ==
    IF i > Len(sorted) THEN Append(sorted, r)
    ELSE IF KeyLess(r, sorted[i])
         THEN SubSeq(sorted, 1, i - 1) \o <<r>> \o SubSeq(sorted, i, Len(sorted))
    ELSE InsertSorted(sorted, r, i + 1)

RECURSIVE SortFrom(_, _, _)
SortFrom(list, i, sorted) ==
    IF i > Len(list) THEN sorted
    ELSE SortFrom(list, i + 1, InsertSorted(sorted, list[i], 1))

SortRecords(list) == SortFrom(list, 1, <<>>)

MainUnused == <<name, ident>>

\* Lines 283-300: load the canonical list, reset the counters; the loop
\* over scrapers starts with scrape_icarebetter (lines 74-76).
Load ==
    /\ pc = "load"
    /\ Readable(dataFile)
    /\ existing' = IF dataFile.exists THEN dataFile.json ELSE <<>>
    /\ loaded' = existing'
    /\ total_added' = 0
    /\ results_by_source' = <<>>
    /\ fetched' = <<>>
    /\ si' = 1
    /\ page' = 1
    /\ surgeons' = <<>>
    /\ since' = SLEEP
    /\ gap' = SLEEP
    /\ wrote' = {}
    /\ pc' = "scrape"
    /\ UNCHANGED <<dataFile, logFile, clock, new_entries, added>>
    /\ UNCHANGED MainUnused

\* What is remembered of a scraper call that returned.
Returned(source, entries, failed) ==
    (source :> [raised |-> FALSE, failed |-> failed, entries |-> entries]) @@ fetched

\* Lines 78-133: one pass of the while loop of scrape_icarebetter; after the
\* last pass the scraper returns its list to main and its locals are gone
\* (they are as lines 74-76 set them, for the next call).
FetchICB(Pages) ==
    /\ pc = "scrape"
    /\ si = 1
    /\ \E soup \in Pages[page] :
          LET pass == ICBPass(surgeons, page, soup)
          IN  /\ gap' = since
              /\ since' = SinceAfterGet(soup)
              /\ IF pass.again
                 THEN /\ surgeons' = pass.surgeons
                      /\ page' = page + 1
                      /\ fetched' = IF scrapers[1] \in DOMAIN fetched THEN fetched
                                    ELSE Returned(scrapers[1], <<>>, FALSE)
                      /\ UNCHANGED <<pc, new_entries>>
                 ELSE /\ new_entries' = pass.surgeons
                      /\ fetched' = Returned(scrapers[1], pass.surgeons, soup = FetchFail)
                      /\ pc' = "merge"
                      /\ surgeons' = <<>>
                      /\ page' = 1
    /\ UNCHANGED <<existing, dataFile, logFile, results_by_source, total_added, si,
                   clock, loaded, added, wrote>>
    /\ UNCHANGED MainUnused

\* Lines 136-186: scrape_endofendo, one fetch.
FetchEoE(Pages) ==
    /\ pc = "scrape"
    /\ si = 2
    /\ \E soup \in Pages :
          /\ new_entries' = scrape_endofendo(soup)
          /\ fetched' = Returned(scrapers[2], new_entries', soup = FetchFail)
          /\ gap' = since
          /\ since' = SinceAfterGet(soup)
    /\ pc' = "merge"
    /\ UNCHANGED <<existing, dataFile, logFile, results_by_source, total_added, si,
                   clock, loaded, added, page, surgeons, wrote>>
    /\ UNCHANGED MainUnused

\* Lines 189-226: scrape_pelvic_rehab, one fetch.
FetchPR(Pages) ==
    /\ pc = "scrape"
    /\ si = 3
    /\ \E soup \in Pages :
          /\ new_entries' = scrape_pelvic_rehab(soup)
          /\ fetched' = Returned(scrapers[3], new_entries', soup = FetchFail)
          /\ gap' = since
          /\ since' = SinceAfterGet(soup)
    /\ pc' = "merge"
    /\ UNCHANGED <<existing, dataFile, logFile, results_by_source, total_added, si,
                   clock, loaded, added, page, surgeons, wrote>>
    /\ UNCHANGED MainUnused

\* Mutant of OnSourceError: the except clause logs the error and records
\* nothing.
OnSourceError_NotRecorded(results, source) == results

\* What the except clause of the loop records for a source that raised.
OnSourceError(results, source) == (source :> [error |-> "exception"]) @@ results

\* Mutant of AfterSource: an exception ends the loop over scrapers.
AfterSource_BreakOnError(i, raised) ==
    IF raised \/ i = Len(scrapers) THEN "sort" ELSE "scrape"

\* Where main() goes after source i, whether it raised or not: the except
\* clause is inside the loop, so the loop goes on to the next scraper.
AfterSource(i, raised) == IF i = Len(scrapers) THEN "sort" ELSE "scrape"

\* Lines 306-312: the scraper has returned; merge and record the counts.
MergeSource ==
    /\ pc = "merge"
    /\ LET r == merge_surgeons(existing, new_entries)
       IN  /\ existing' = r.list
           /\ added' = r.added
           /\ total_added' = total_added + r.added
           /\ results_by_source' =
                  (scrapers[si] :> [scraped |-> Len(new_entries), added |-> r.added])
                      @@ results_by_source
    /\ pc' = AfterSource(si, FALSE)
    /\ si' = si + 1
    /\ UNCHANGED <<dataFile, logFile, clock, loaded, fetched, new_entries, page, surgeons,
                   since, gap, wrote>>
    /\ UNCHANGED MainUnused

\* Lines 313-315: the scraper raises, or merge_surgeons does before its
\* loop (line 237); the except clause records the error.
SourceRaises ==
    /\ pc \in {"scrape", "merge"}
    /\ results_by_source' = OnSourceError(results_by_source, scrapers[si])
    /\ fetched' = (scrapers[si] :>
                      [raised  |-> TRUE,
                       failed  |-> scrapers[si] \in DOMAIN fetched /\ fetched[scrapers[si]].failed,
                       entries |-> <<>>]) @@ fetched
    /\ pc' = AfterSource(si, TRUE)
    /\ si' = si + 1
    /\ surgeons' = <<>>
    /\ page' = 1
    /\ UNCHANGED <<existing, dataFile, logFile, total_added, clock, loaded,
                   new_entries, added, since, gap, wrote>>
    /\ UNCHANGED MainUnused

\* Line 318.
SortStep ==
    /\ pc = "sort"
    /\ existing' = SortRecords(existing)
    /\ pc' = "save"
    /\ UNCHANGED <<dataFile, logFile, results_by_source, total_added, si, clock,
                   loaded, fetched, new_entries, added, page, surgeons, since, gap, wrote>>
    /\ UNCHANGED MainUnused

\* Lines 320-323.
SaveData ==
    /\ pc = "save"
    /\ dataFile' = File(existing)
    /\ wrote' = wrote \cup {"data"}
    /\ pc' = "log"
    /\ UNCHANGED <<existing, logFile, results_by_source, total_added, si, clock,
                   loaded, fetched, new_entries, added, page, surgeons, since, gap>>
    /\ UNCHANGED MainUnused

\* Lines 325-339.
SaveLog ==
    /\ pc = "log"
    /\ Readable(logFile)
    /\ LET log_entry == [timestamp |-> clock,
                         total_surgeons |-> Len(existing),
                         added_this_run |-> total_added,
                         sources |-> results_by_source]
           history == IF logFile.exists THEN logFile.json ELSE <<>>
       IN  logFile' = File(LastN(Append(history, log_entry), KeepMonths))
    /\ wrote' = wrote \cup {"log"}
    /\ pc' = "done"
    /\ UNCHANGED <<existing, dataFile, results_by_source, total_added, si, clock,
                   loaded, fetched, new_entries, added, page, surgeons, since, gap>>
    /\ UNCHANGED MainUnused

\* Files a run can find: none, or a curated list in saved order.
StartFiles == {Absent, File(<<ManualJane>>), File(<<ManualAmy, ManualJane>>)}

InitMain(Files) ==
    /\ pc = "load"
    /\ dataFile \in Files
    /\ logFile = Absent
    /\ clock = 1
    /\ existing = <<>> /\ loaded = <<>> /\ new_entries = <<>> /\ added = 0
    /\ total_added = 0 /\ results_by_source = <<>> /\ fetched = <<>> /\ si = 1
    /\ page = 1 /\ surgeons = <<>>
    /\ since = SLEEP /\ gap = SLEEP /\ wrote = {}
    /\ name = Idle /\ ident = Idle

Init == InitMain(StartFiles)

Next ==
    \/ Load
    \/ FetchICB(ICBAnyPage)
    \/ FetchEoE(EoEPages)
    \/ FetchPR(PRPages)
    \/ MergeSource
    \/ SourceRaises
    \/ SortStep
    \/ SaveData
    \/ SaveLog

\* One run of main() against any behaviour of the three sites.
Spec == Init /\ [][Next]_vars

NextICB ==
    \/ Load
    \/ FetchICB(ICBAnyPage)

\* The start of a run up to the return of scrape_icarebetter, against any
\* behaviour of its site.  The program is sequential: while a statement is
\* left to execute, it is executed.
SpecICB == Init /\ [][NextICB]_vars /\ WF_vars(NextICB)

\* Number of scheduled runs followed.
MaxRuns == 26

\* The scheduler starts the next run once the previous one has ended.
NextRun ==
    /\ pc = "done"
    /\ clock < MaxRuns
    /\ pc' = "load"
    /\ clock' = clock + 1
    /\ UNCHANGED <<existing, dataFile, logFile, results_by_source, total_added, si,
                   loaded, fetched, new_entries, added, page, surgeons, since, gap, wrote>>
    /\ UNCHANGED MainUnused

\* Sites that behave the same in every run: iCareBetter lists one surgeon on
\* one page, EndofEndo lists two, Pelvic Rehab is down.
ICBSteadyPage ==
    [p \in 1..PageLimit |-> {[ok |-> TRUE, cards |-> <<JaneSpacedCard>>, next |-> FALSE]}]
EoESteadyPages == {[ok |-> TRUE, entries |-> <<JaneEoE, JohnEoE>>]}
PRSteadyPages == {FetchFail}

InitRuns == InitMain({Absent, File(<<ManualJane>>)})

NextRuns ==
    \/ Load
    \/ FetchICB(ICBSteadyPage)
    \/ FetchEoE(EoESteadyPages)
    \/ FetchPR(PRSteadyPages)
    \/ MergeSource
    \/ SortStep
    \/ SaveData
    \/ SaveLog
    \/ NextRun

\* Run after run of main() against sites that do not change and scrapers
\* that do not raise.
SpecRuns == InitRuns /\ [][NextRuns]_vars

-----------------------------------------------------------------------------
(* Runs in which reading or writing a file can fail                        *)
(*                                                                         *)
(* main() catches no exception outside the loop over the scrapers: an      *)
(* exception of open, json.load or json.dump, or the process being killed, *)
(* ends the run where it is.                                               *)

\* Lines 284-286: open or json.load raises (always, when the file holds an
\* incomplete text).
LoadFails ==
    /\ pc = "load"
    /\ dataFile.exists
    /\ wrote' = {}
    /\ pc' = "aborted"
    /\ UNCHANGED <<existing, dataFile, logFile, results_by_source, total_added, si, clock,
                   loaded, fetched, new_entries, added, page, surgeons, since, gap>>
    /\ UNCHANGED MainUnused

\* Lines 321-322: open raises and the file is as it was, or the run stops
\* after open has emptied the file and json.dump has written part of the
\* text.
SaveDataFails ==
    /\ pc = "save"
    /\ \/ UNCHANGED <<dataFile, wrote>>
       \/ /\ \E k \in 0..Len(existing) : dataFile' = Torn(existing, k)
          /\ wrote' = wrote \cup {"data"}
    /\ pc' = "aborted"
    /\ UNCHANGED <<existing, logFile, results_by_source, total_added, si, clock,
                   loaded, fetched, new_entries, added, page, surgeons, since, gap>>
    /\ UNCHANGED MainUnused

\* Lines 333-339: reading the history raises (always, when it holds an
\* incomplete text) and the log file is as it was, or the run stops before
\* json.dump has written a first entry.
SaveLogFails ==
    /\ pc = "log"
    /\ \/ UNCHANGED <<logFile, wrote>>
       \/ /\ Readable(logFile)
          /\ logFile' = Torn(<<>>, 0)
          /\ wrote' = wrote \cup {"log"}
    /\ pc' = "aborted"
    /\ UNCHANGED <<existing, dataFile, results_by_source, total_added, si, clock,
                   loaded, fetched, new_entries, added, page, surgeons, since, gap>>
    /\ UNCHANGED MainUnused

\* Number of runs followed when files can fail.
MaxAttempts == 3

\* The scheduler starts the next run, whether the previous one ended or
\* was aborted.
RunAgain ==
    /\ pc \in {"done", "aborted"}
    /\ clock < MaxAttempts
    /\ pc' = "load"
    /\ clock' = clock + 1
    /\ UNCHANGED <<existing, dataFile, logFile, results_by_source, total_added, si,
                   loaded, fetched, new_entries, added, page, surgeons, since, gap, wrote>>
    /\ UNCHANGED MainUnused

NextPersist ==
    \/ Load
    \/ FetchICB(ICBSteadyPage)
    \/ FetchEoE(EoESteadyPages)
    \/ FetchPR(PRSteadyPages)
    \/ MergeSource
    \/ SortStep
    \/ SaveData
    \/ SaveLog
    \/ LoadFails
    \/ SaveDataFails
    \/ SaveLogFails
    \/ RunAgain

\* Run after run of main() against sites that do not change, with a file
\* system that can fail.
SpecPersist == InitRuns /\ [][NextPersist]_vars

-----------------------------------------------------------------------------
(* make_id on display names of the shape the scrapers' pattern accepts:     *)
(* Dr\. [A-Z][a-z]+(?: [A-Z][a-z]+)+                                        *)

\* Longest run of lowercase letters after a word's capital, and largest
\* number of family names.
MaxTail == 2
MaxFamily == 2

NameUpper == {"D"}
NameLower == {"d", "r"}

NameWords ==
    {<<u>> \o t : u \in NameUpper, t \in UNION {[1..k -> NameLower] : k \in 1..MaxTail}}

RECURSIVE JoinWords(_, _)
JoinWords(ws, i) ==
    IF i > Len(ws) THEN <<>> ELSE <<" ">> \o ws[i] \o JoinWords(ws, i + 1)

\* "Dr." followed by a given name and one or more family names
ValidNames ==
    {Title \o JoinWords(ws, 1) :
        ws \in UNION {[1..k -> NameWords] : k \in 2..(MaxFamily + 1)}}

IdUnused == <<existing, dataFile, logFile, results_by_source, total_added, si,
              clock, loaded, fetched, page, surgeons, since, gap, wrote, new_entries, added>>

InitId ==
    /\ pc = "name"
    /\ name \in ValidNames
    /\ ident = <<>>
    /\ existing = Idle /\ dataFile = Idle /\ logFile = Idle
    /\ results_by_source = Idle /\ total_added = Idle /\ si = Idle /\ clock = Idle
    /\ loaded = Idle /\ fetched = Idle /\ page = Idle /\ surgeons = Idle /\ since = Idle /\ gap = Idle /\ wrote = Idle
    /\ new_entries = Idle /\ added = Idle

MakeId ==
    /\ pc = "name"
    /\ ident' = make_id(name)
    /\ pc' = "made"
    /\ UNCHANGED name
    /\ UNCHANGED IdUnused

NextId == MakeId

SpecId == InitId /\ [][NextId]_vars

-----------------------------------------------------------------------------
(* merge_surgeons called repeatedly on arbitrary candidate lists          *)

MergeUnused == <<pc, dataFile, logFile, results_by_source, total_added, si,
                 clock, loaded, fetched, page, surgeons, since, gap, wrote, name, ident>>

InitMerge ==
    /\ existing \in StartSets
    /\ new_entries = <<>>
    /\ added = 0
    /\ pc = Idle /\ dataFile = Idle /\ logFile = Idle /\ results_by_source = Idle
    /\ total_added = Idle /\ si = Idle /\ clock = Idle /\ loaded = Idle
    /\ fetched = Idle /\ page = Idle /\ surgeons = Idle /\ since = Idle /\ gap = Idle /\ wrote = Idle /\ name = Idle /\ ident = Idle

\* One call merge_surgeons(existing, entries); existing is rebound to the result.
MergeCall ==
    \E entries \in CandLists :
        LET r == merge_surgeons(existing, entries)
        IN  /\ existing' = r.list
            /\ added' = r.added
            /\ new_entries' = entries
            /\ UNCHANGED MergeUnused

NextMerge == MergeCall

SpecMerge == InitMerge /\ [][NextMerge]_vars

-----------------------------------------------------------------------------
(* PROPERTIES                                                              *)

\* Number of positions of `list` that hold the record r.
Count(list, r) == Cardinality({i \in DOMAIN list : list[i] = r})

\* Every record of `old` is in `new`, as often, with every field as it was.
Kept(old, new) == \A r \in Range(old) : Count(new, r) >= Count(old, r)

\* The key of a candidate entry, and whether merge_surgeons accepts it.
EntryName(entry) == Strip(Get(entry, "name", <<>>))
Accepted(entry) == EntryName(entry) # <<>> /\ StartsWith(EntryName(entry), Title)
EntryKey(entry) == normalize_name(EntryName(entry))

KeysOf(list) == {normalize_name(d.name) : d \in Range(list)}

NoSharedKey(list) ==
    \A i, j \in DOMAIN list :
        i < j => normalize_name(list[i].name) # normalize_name(list[j].name)

\* C1: non-destructive, additive pipeline.  A pass of the scraper loop only
\* appends to the canonical list (the list it had is a prefix of the list it
\* has afterwards), the sort only re-orders it, and the file saved at the end
\* of a run holds every record the run loaded, with every field unchanged,
\* also when candidates carry the key of a loaded record with other fields.
C1_Step ==
    /\ pc \in {"scrape", "merge"} =>
          /\ Len(existing') >= Len(existing)
          /\ SubSeq(existing', 1, Len(existing)) = existing
    /\ pc = "sort" => Kept(existing, existing') /\ Kept(existing', existing)
    /\ pc = "save" => Kept(loaded, dataFile'.json) /\ Kept(existing, dataFile'.json)

C1_NonDestructive == [][C1_Step]_vars

\* A run has saved, a source offered Dr. Jane Smith with fields of its own,
\* and the curated record of Dr. Jane Smith is in the file as it was.
C1_Witness ==
    /\ pc = "done"
    /\ ManualJane \in Range(loaded)
    /\ "EndofEndo" \in DOMAIN fetched
    /\ JaneEoE \in Range(fetched["EndofEndo"].entries)
    /\ ManualJane \in Range(dataFile.json)
    /\ Len(dataFile.json) > Len(loaded)

\* C2: dedup invariant.  A call of merge_surgeons on a list in which no two
\* records share a normalized-name key returns a list in which no two
\* records share one; so from such a starting set no sequence of calls
\* reaches a list with a shared key.
C2_DedupInvariant == [][NoSharedKey(existing) => NoSharedKey(existing')]_vars

\* A call whose candidate list names one surgeon twice added records.
C2_Witness ==
    /\ NoSharedKey(existing)
    /\ added >= 1
    /\ \E i, j \in DOMAIN new_entries :
          i < j /\ Accepted(new_entries[i]) /\ Accepted(new_entries[j])
                /\ EntryKey(new_entries[i]) = EntryKey(new_entries[j])

\* C3: idempotence.  After a call with a candidate list, a second call with
\* the same list on the result adds nothing and returns the list unchanged.
C3_Idempotent ==
    merge_surgeons(existing, new_entries) = [list |-> existing, added |-> 0]

\* The first call with the list added two records.
C3_Witness == added = 2 /\ Len(new_entries) >= 2 /\ Len(existing) >= 3

\* C4: exact result.  A call appends one record per distinct key that occurs
\* among the accepted candidates and is not a key of the list, in order of
\* first occurrence, built from the first candidate with that key; the count
\* returned is the number of those keys and the list grows by it.  The two
\* end-to-end scenarios are instances.
FirstWithKey(entries, k) ==
    CHOOSE i \in DOMAIN entries :
        /\ Accepted(entries[i]) /\ EntryKey(entries[i]) = k
        /\ \A j \in 1..(i - 1) : ~(Accepted(entries[j]) /\ EntryKey(entries[j]) = k)

C4_Step ==
    LET entries == new_entries'
        newKeys == {EntryKey(entries[i]) : i \in {j \in DOMAIN entries : Accepted(entries[j])}}
                       \ KeysOf(existing)
        n       == Len(existing)
    IN  /\ added' = Cardinality(newKeys)
        /\ Len(existing') = n + added'
        /\ SubSeq(existing', 1, n) = existing
        /\ \A j \in 1..added' :
              LET rec == existing'[n + j]
                  k   == normalize_name(rec.name)
              IN  /\ k \in newKeys
                  /\ rec.name = EntryName(entries[FirstWithKey(entries, k)])
                  /\ rec.source = entries[FirstWithKey(entries, k)].source
                  /\ Cardinality({q \in newKeys :
                         FirstWithKey(entries, q) < FirstWithKey(entries, k)}) = j - 1
        /\ (existing = <<>> /\ entries = <<JaneEoE, JaneEoE, JohnEoE>>) =>
              (Len(existing') = 2 /\ added' = 2)
        /\ (existing = <<ManualJane>> /\ entries = <<JaneEoE, AmyPR>>) =>
              (added' = 1 /\ existing' = <<ManualJane, BuildRecord(AmyPR, DrAmyLee)>>)

C4_ExactResult == [][C4_Step]_vars

\* The first scenario has run: [] merged with Jane, Jane, John.
C4_Witness ==
    /\ new_entries = <<JaneEoE, JaneEoE, JohnEoE>>
    /\ added = 2
    /\ Len(existing) = 2
    /\ existing[1].name = DrJaneSmith /\ existing[2].name = DrJohnDoe

\* The records of `list` whose display name is one of the three spellings
\* of Dr. Jane Smith.
JaneSpellings == {DrJaneSmith, drjanesmith, DrJaneSmithSpaced}
JaneCount(list) == Cardinality({i \in DOMAIN list : list[i].name \in JaneSpellings})

\* C5: dedup symmetry.  'Dr. Jane Smith', 'dr jane smith' and
\* 'Dr.  Jane   Smith.' are one identity: a call of merge_surgeons on a
\* list with at most one record of that identity, whichever spelling it
\* has and whichever order the candidates come in, returns a list with at
\* most one record of it.
C5_DedupSymmetry == [][JaneCount(existing) <= 1 => JaneCount(existing') <= 1]_vars

\* The candidates of the sources that returned, in the order of the loop.
RECURSIVE Offered(_)
Offered(i) ==
    IF i > Len(scrapers) THEN <<>>
    ELSE (IF scrapers[i] \in DOMAIN fetched /\ ~fetched[scrapers[i]].raised
          THEN fetched[scrapers[i]].entries ELSE <<>>) \o Offered(i + 1)

AfterLoop == {"sort", "save", "log", "done"}

\* C6: fault isolation.  Whatever the sources do (a fetch fails, a scraper
\* or a merge raises), the loop attempts every source; the canonical list
\* keeps what the run loaded and what earlier sources added; every accepted
\* candidate of a source that was merged has its key in the list from then
\* on; and the file saved has at least as many records as were loaded.
C6_FaultIsolation ==
    /\ pc # "load" => Len(existing) >= Len(loaded) /\ Kept(loaded, existing)
    /\ pc # "load" =>
          \A s \in DOMAIN results_by_source :
              "added" \in DOMAIN results_by_source[s] =>
                  \A e \in Range(fetched[s].entries) :
                      Accepted(e) => EntryKey(e) \in KeysOf(existing)
    /\ pc \in AfterLoop => DOMAIN results_by_source = Range(scrapers)
    /\ pc \in {"log", "done"} =>
          /\ Len(dataFile.json) >= Len(loaded)
          /\ Kept(existing, dataFile.json)

\* A run has ended in which iCareBetter raised, the fetch of EndofEndo
\* failed and Pelvic Rehab added a record to a curated list.
C6_Witness ==
    /\ pc = "done"
    /\ Len(loaded) >= 1
    /\ fetched["iCareBetter"].raised
    /\ fetched["EndofEndo"].failed /\ ~fetched["EndofEndo"].raised
    /\ results_by_source["Pelvic Rehab"] = [scraped |-> 1, added |-> 1]
    /\ Len(dataFile.json) = Len(loaded) + 1

\* C7: a source failure is reported as an error.  At the end of a run the
\* outcome entry of every source whose fetch failed is an error entry.
C7_FailureReported ==
    pc = "done" =>
        \A s \in DOMAIN fetched :
            fetched[s].failed =>
                "error" \in DOMAIN logFile.json[Len(logFile.json)].sources[s]

\* C8: invocation-style equivalence.  When the loop over the sources has
\* ended, the canonical list and the total count are what one call of
\* merge_surgeons on the loaded list and the concatenation of the sources'
\* candidate lists returns.
C8_InvocationEquivalence ==
    pc = "sort" =>
        merge_surgeons(loaded, Offered(1))
            = [list |-> existing, added |-> total_added]

\* The loop has ended; each of the three sources returned candidates, two
\* of them the same surgeon, and one source named a surgeon twice.
C8_Witness ==
    /\ pc = "sort"
    /\ \A s \in Range(scrapers) : s \in DOMAIN fetched /\ fetched[s].entries # <<>>
    /\ fetched["EndofEndo"].entries = <<JohnEoE, JohnEoE>>
    /\ JohnCard.name \in {e.name : e \in Range(fetched["iCareBetter"].entries)}
    /\ total_added >= 2

\* Runs that have ended, the current one included once it has logged.
Completed == IF pc = "done" THEN clock ELSE clock - 1

Min(a, b) == IF a <= b THEN a ELSE b

\* C9: retention cap.  The history file holds the summaries of the last
\* min(N, 24) of the N runs that have ended, oldest first: never more than
\* 24, and a summary leaves only when 24 newer ones exist.
C9_RetentionCap ==
    /\ logFile.exists <=> Completed >= 1
    /\ logFile.exists =>
          LET history == logFile.json
          IN  /\ Len(history) <= KeepMonths
              /\ Len(history) = Min(Completed, KeepMonths)
              /\ \A i \in DOMAIN history :
                    history[i].timestamp = Completed - Len(history) + i

\* Two runs more than the cap have ended: the first two have been evicted.
C9_Witness ==
    /\ pc = "done"
    /\ clock = KeepMonths + 2
    /\ Len(logFile.json) = KeepMonths
    /\ logFile.json[1].timestamp = 3
    /\ logFile.json[KeepMonths].timestamp = KeepMonths + 2

IdChars == AlphaNum \cup {"-"}

\* C10: identifier shape.  For a display name "Dr. Given Family ..." the
\* identifier is not empty, is made of characters of [a-z0-9-] only, does
\* not begin or end with the separator and has no two separators in a row;
\* and computing it again gives the same identifier.
C10_IdentifierShape ==
    pc = "made" =>
        /\ ident # <<>>
        /\ \A i \in DOMAIN ident : ident[i] \in IdChars
        /\ ident[1] # "-" /\ ident[Len(ident)] # "-"
        /\ \A i \in 1..(Len(ident) - 1) : ~(ident[i] = "-" /\ ident[i + 1] = "-")
        /\ make_id(name) = ident

\* make_id has run on "Dr. Dd Dd" and joined the two names with one separator.
C10_Witness ==
    /\ pc = "made"
    /\ name = <<"D","r","."," ","D","d"," ","D","d">>
    /\ ident = <<"d","d","-","d","d">>

\* C11: a persistence failure aborts before any write.  A run that was
\* aborted by a failed load or save has opened no file for writing: in
\* particular no run overwrites the data file and then fails a later
\* persistence step.
C11_AbortBeforeWrite == pc = "aborted" => wrote = {}

\* C12: atomic save.  Whatever happened to earlier runs during their save, the
\* data file a run finds at its load is missing or holds a complete
\* canonical set, never an empty or truncated text.
C12_AtomicSave == pc = "load" => (~dataFile.exists \/ "json" \in DOMAIN dataFile)

\* The run summary the current run wrote.
Summary == logFile.json[Len(logFile.json)]

\* C13: complete per-source reporting.  A run that has come to the save has
\* an outcome for each of the three sources and for nothing else, each
\* either counts {scraped, added} or {error}; and the summary it writes is
\* the run's own and holds that map.
C13_CompleteReporting ==
    /\ pc \in AfterLoop =>
          /\ DOMAIN results_by_source = Range(scrapers)
          /\ \A s \in Range(scrapers) :
                DOMAIN results_by_source[s] \in {{"scraped", "added"}, {"error"}}
    /\ pc = "done" =>
          /\ logFile.exists
          /\ Summary.timestamp = clock
          /\ Summary.sources = results_by_source

\* A summary has been written of a run in which one source raised, one
\* source's fetch failed and one added a record.
C13_Witness ==
    /\ pc = "done"
    /\ Summary.sources["iCareBetter"] = [scraped |-> 0, added |-> 0]
    /\ fetched["iCareBetter"].failed
    /\ DOMAIN Summary.sources["EndofEndo"] = {"error"}
    /\ Summary.sources["Pelvic Rehab"] = [scraped |-> 1, added |-> 1]

\* scrape_icarebetter is in its loop.
ICBRunning == pc = "scrape" /\ si = 1

IsPrefix(a, b) == Len(a) <= Len(b) /\ SubSeq(b, 1, Len(a)) = a

\* C14: the pagination cap guarantees termination.  The page scrape_icarebetter
\* is about to fetch is never beyond the 40th; a pass on a page whose fetch
\* fails or that has no cards is the last one and returns the candidates of
\* the pages read before; whatever ends the loop, those candidates are
\* returned; and the loop ends, also against a site whose every page has
\* cards and a `next page' link.
C14_PaginationCap ==
    /\ [](ICBRunning =>
            /\ page \in 1..PageLimit
            /\ \A soup \in ICBAnyPage[page] :
                  /\ IsPrefix(surgeons, ICBPass(surgeons, page, soup).surgeons)
                  /\ (soup = FetchFail \/ soup.cards = <<>>) =>
                        ICBPass(surgeons, page, soup) = [surgeons |-> surgeons, again |-> FALSE])
    /\ (ICBRunning ~> ~ICBRunning)

\* The loop is about to fetch page 40, after 39 pages with cards and a
\* `next page' link, with the candidates of the first pages in hand.
C14_Witness == ICBRunning /\ page = PageLimit /\ Len(surgeons) >= 2

\* Record a may stand before record b: its state is smaller, or the states
\* are equal and its family name, lowercased, is not larger.
InOrder(a, b) ==
    \/ StrLess(a.state, b.state)
    \/ a.state = b.state /\ ~StrLess(Lower(b.ln), Lower(a.ln))

Ordered(list) == \A i, j \in DOMAIN list : i < j => InOrder(list[i], list[j])

C15_Step ==
    /\ pc = "sort" =>
          /\ DOMAIN results_by_source = Range(scrapers)
          /\ pc' = "save"
          /\ Ordered(existing')
          /\ Len(existing') = Len(existing)
          /\ Kept(existing, existing') /\ Kept(existing', existing)
    /\ pc = "save" =>
          /\ Ordered(existing)
          /\ dataFile' = File(existing)

\* C15: deterministic final order.  The sort runs when every source has an
\* outcome and is followed by the save; it leaves the list ordered by state
\* and, within a state, by lowercased family name, with the same records;
\* and the list saved is that ordered list.
C15_FinalOrder == [][C15_Step]_vars

\* A run has saved a list of four records or more that was not in order
\* when the loop over the sources ended: two records without a state,
\* added by different passes, lead it.
C15_Witness ==
    /\ pc = "done"
    /\ Len(dataFile.json) >= 4
    /\ dataFile.json[1].name = DrJohnDoe
    /\ dataFile.json[2].name = DrJaneSmithSpaced
    /\ dataFile.json[1].state = <<>> /\ dataFile.json[2].state = <<>>

C16_Step ==
    LET entries == new_entries'
        n       == Len(existing)
    IN  /\ IsPrefix(existing, existing')
        /\ \A j \in (n + 1)..Len(existing') :
              LET k     == normalize_name(existing'[j].name)
                  first == entries[FirstWithKey(entries, k)]
              IN  /\ k \notin KeysOf(existing)
                  /\ existing'[j].name = EntryName(first)
                  /\ existing'[j] = BuildRecord(first, existing'[j].name)
                  /\ existing'[j].source = Get(first, "source", "Monthly Update")

\* C16: first-seen source wins.  The record a call creates for a key is the
\* one built from the earliest accepted candidate with that key in the
\* list, source tag included; a candidate whose key the list already holds,
\* from an earlier call or from the file, creates nothing and leaves the
\* record with that key as it was.
C16_FirstSeenWins == [][C16_Step]_vars

\* Dr. Jane Smith was offered by Pelvic Rehabilitation Medicine first and by
\* EndofEndo second, and the one record created carries the first tag.
C16_Witness ==
    /\ Len(new_entries) = 2
    /\ new_entries[1] = JanePR /\ new_entries[2] = JaneEoE
    /\ added = 1
    /\ existing[Len(existing)] = BuildRecord(JanePR, DrJaneSmith)
    /\ existing[Len(existing)].source = "Pelvic Rehabilitation Medicine"

DistinctIds(list) == \A i, j \in DOMAIN list : i < j => list[i].id # list[j].id

C17_Step ==
    /\ \A i, j \in DOMAIN new_entries' :
          (Accepted(new_entries'[i]) /\ Accepted(new_entries'[j])) =>
              (make_id(EntryName(new_entries'[i])) = make_id(EntryName(new_entries'[j]))
                  <=> EntryKey(new_entries'[i]) = EntryKey(new_entries'[j]))
    /\ DistinctIds(existing) => DistinctIds(existing')

\* C17: identifier and key agree.  Two names merge_surgeons accepts in a
\* call have the same identifier exactly when they have the same key, and a
\* call on a list whose identifiers are pairwise distinct returns a list
\* whose identifiers are pairwise distinct.
C17_IdentifierAgreesWithKey == [][C17_Step]_vars

Sentinel == "Verify directly"

\* The notes merge_surgeons generates for a candidate without notes.
GeneratedNotes(entry) ==
    <<"Added via ", Get(entry, "source", "monthly update"), ". Verify details directly.">>

C18_Step ==
    \A j \in (Len(existing) + 1)..Len(existing') :
        LET rec   == existing'[j]
            first == new_entries'[FirstWithKey(new_entries', normalize_name(rec.name))]
        IN  /\ rec.ins = Sentinel
            /\ \A f \in {"org", "city", "web", "ins", "source"} : rec[f] # None
            /\ ("notes" \notin DOMAIN first) <=> (rec.notes = GeneratedNotes(first))
            /\ "org" \notin DOMAIN first => rec.org = Sentinel
            /\ "city" \notin DOMAIN first => rec.city = Sentinel
            /\ "state" \notin DOMAIN first => rec.state # <<>>
            /\ ("web" \notin DOMAIN first /\ "profile_url" \notin DOMAIN first) =>
                  rec.web = Sentinel

\* C18: sentinel for absent fields.  In every record a call creates, the
\* insurance note is the sentinel, none of the text fields other than phone
\* is null, the notes are the generated text exactly when the candidate has
\* none, and organization, city, state and web hold the sentinel (state: at
\* least a non-empty value) when the candidate does not supply them.
C18_SentinelForAbsent == [][C18_Step]_vars

\* C19: mandatory delay between fetches.  Whenever a request is sent, at
\* least SLEEP seconds are known to have passed since the request before
\* it, whether that one succeeded or failed.
C19_DelayBetweenFetches == pc # "load" => gap >= SLEEP

\* The sum of the 'added' counts of the sources i, i + 1, ... that report
\* counts in the outcome map `sources`.
RECURSIVE SumAdded(_, _)
SumAdded(sources, i) ==
    IF i > Len(scrapers) THEN 0
    ELSE (IF "added" \in DOMAIN sources[scrapers[i]] THEN sources[scrapers[i]].added ELSE 0)
             + SumAdded(sources, i + 1)

\* C20: run summary accounting.  In the summary a run writes,
\* added_this_run is the sum of the added counts of the sources that report
\* counts, each of which has added <= scraped; total_surgeons is the number
\* of records loaded plus added_this_run and is the number of records
\* saved; and every saved record that was not loaded has verified = false,
\* so that a record with verified = true is one the run loaded with it.
C20_SummaryAccounting ==
    pc = "done" =>
        /\ Summary.added_this_run = SumAdded(Summary.sources, 1)
        /\ \A s \in DOMAIN Summary.sources :
              "added" \in DOMAIN Summary.sources[s] =>
                  Summary.sources[s].added <= Summary.sources[s].scraped
        /\ Summary.total_surgeons = Len(loaded) + Summary.added_this_run
        /\ Summary.total_surgeons = Len(dataFile.json)
        /\ \A r \in Range(dataFile.json) :
              Count(dataFile.json, r) > Count(loaded, r) => r.verified = FALSE
        /\ \A r \in Range(dataFile.json) : r.verified => r \in Range(loaded)

\* A summary of a run that loaded a curated record, in which one source
\* raised and the two others added a record each, one of them from more
\* candidates than it added.
C20_Witness ==
    /\ pc = "done"
    /\ Len(loaded) = 1
    /\ Summary.added_this_run = 2
    /\ Summary.total_surgeons = 3
    /\ DOMAIN Summary.sources["iCareBetter"] = {"error"}
    /\ Summary.sources["EndofEndo"] = [scraped |-> 2, added |-> 1]
    /\ Summary.sources["Pelvic Rehab"] = [scraped |-> 2, added |-> 1]

====
